---------------------------- MODULE Spec2Model ----------------------------
(***************************************************************************)
(* Model of simple_text_editor.py: one editor session (the Tk text widget  *)
(* txt_edit, the global current_file, the window title) and its four       *)
(* handlers open_file, save_file_as, save_file and on_close, running over  *)
(* a small file system.                                                    *)
(*                                                                         *)
(* Text is a sequence of characters.  A file's contents are the characters *)
(* stored on disk; UTF-8 encoding and decoding of well-formed text is a    *)
(* bijection and is not represented, while text that cannot be decoded or  *)
(* encoded is one of the ways a read or a write fails.  Python's text-mode *)
(* newline handling (open() with newline=None) is represented.             *)
(***************************************************************************)
EXTENDS Integers, Sequences, FiniteSets, TLC

\* Longest buffer the user's typing may produce.
MaxLen == 1

LF == "\n"
CR == "\r"

\* Characters the user can put into the text widget.
Alphabet == {"a", LF, CR}

\* current_file = None (line 30).  A path is a sequence of single characters,
\* so this value differs from every path and from the empty string "".
None == <<"None">>

\* What a cancelled file dialog returns: the empty string.
Cancelled == <<>>

\* Paths the file dialogs can return.
PathA == <<"/", "d", "/", "a", ".", "t", "x", "t">>
PathU == <<"/", "d", "/", "U", "n", "t", "i", "t", "l", "e", "d">>
Paths == {PathA, PathU}

\* A path at which no file exists.
NoFile == <<"ENOENT">>

\* Contents the files can have before the editor starts.
InitContents == {NoFile, <<"a", CR, LF>>}

\* os.linesep: "\n" on POSIX, "\r\n" on Windows.
LineSeps == {<<LF>>, <<CR, LF>>}

VARIABLES
    buffer,        \* txt_edit.get("1.0", "end-1c")
    modified,      \* txt_edit.edit_modified()
    current_file,  \* the global current_file
    title,         \* window.title()
    running,       \* FALSE once window.destroy() has run
    fs,            \* the file system: contents of each path, or NoFile
    linesep,       \* os.linesep of the platform the editor runs on
    lastOp,        \* the handler that ran last
    dialog,        \* what the file dialog of that handler returned
    io,            \* how the file access of that handler went
    tries,         \* how many times that handler called open()
    wasModified,   \* txt_edit.edit_modified() when that handler was entered
    afterSaveAs,   \* the path save_file_as() had just written then, or None
    flushed,       \* characters a failed write left in the file
    ui,            \* toolkit dialogs that handler showed, in order
    answer,        \* what askyesno answered in that handler
    ret            \* what that handler returned

vars == <<buffer, modified, current_file, title, running, fs, linesep,
          lastOp, wasModified, afterSaveAs, dialog, io, tries, flushed, ui, answer, ret>>

session == <<buffer, modified, current_file, title>>

\* The path the handler that ran last wrote as save_file_as(), returning
\* True; None when it was another handler or did not succeed.
SavedAs ==
    IF lastOp = "save_file_as" /\ ret = "True" THEN current_file ELSE None

----------------------------------------------------------------------------
\* Python truthiness of a path value: None and "" are false.
Truthy(path) == path # None /\ path # Cancelled

\* str.rfind("/") + 1 of posixpath.basename: the (1-based) index of the last
\* separator, 0 when there is none.
RFindSep(p) ==
    LET idx == {i \in 1..Len(p) : p[i] = "/"}
    IN  IF idx = {} THEN 0 ELSE CHOOSE i \in idx : \A j \in idx : j <= i

\* os.path.basename(path): p[i:] with i = p.rfind("/") + 1.
Basename(p) == SubSeq(p, RFindSep(p) + 1, Len(p))

TitlePrefix == <<"Simple Text Editor - ">>
Untitled == <<"U", "n", "t", "i", "t", "l", "e", "d">>

\* set_title(path): the title it gives the window.
SetTitle(path) ==
    IF Truthy(path) THEN TitlePrefix \o Basename(path)
    ELSE TitlePrefix \o Untitled

\* Reading with newline="": nothing is translated.
UniversalNewlines_Raw(s) == s

\* Reading in text mode with newline=None (universal newlines): "\r\n" and a
\* lone "\r" are both read as "\n".
RECURSIVE UniversalNewlines(_)
UniversalNewlines(s) ==
    IF s = <<>> THEN <<>>
    ELSE IF Head(s) = CR
         THEN IF Len(s) >= 2 /\ s[2] = LF
              THEN <<LF>> \o UniversalNewlines(SubSeq(s, 3, Len(s)))
              ELSE <<LF>> \o UniversalNewlines(Tail(s))
         ELSE <<Head(s)>> \o UniversalNewlines(Tail(s))

\* Writing in text mode with newline=None: every "\n" is written as sep
\* (os.linesep).
RECURSIVE TranslateNewlines(_, _)
TranslateNewlines(s, sep) ==
    IF s = <<>> THEN <<>>
    ELSE (IF Head(s) = LF THEN sep ELSE <<Head(s)>>)
         \o TranslateNewlines(Tail(s), sep)

\* The read of lines 59-60 succeeds: the file exists and the OS and the
\* decoder raise nothing.
ReadOk(path, how) == fs[path] # NoFile /\ how = "ok"

\* input_file.read() of line 60.
ReadText(path) == UniversalNewlines(fs[path])

\* What `with open(path, "w") ...: write(content)` leaves at path.
\*   "ok"         the translated content;
\*   "open_fail"  open() raised: the file is as it was;
\*   "write_fail" open() truncated the file, then write, flush or close
\*                raised after n characters had reached the disk.
WriteFile(path, content, how, n) ==
    LET out == TranslateNewlines(content, linesep)
    IN  CASE how = "ok"         -> [fs EXCEPT ![path] = out]
          [] how = "open_fail"  -> fs
          [] how = "write_fail" -> [fs EXCEPT ![path] = SubSeq(out, 1, n)]

\* The n that a write of content can have flushed when it fails.
Partial(content, how) ==
    IF how = "write_fail"
    THEN 0 .. (IF content = <<>> THEN 0
               ELSE Len(TranslateNewlines(content, linesep)) - 1)
    ELSE {0}

ReadOutcomes == {"ok", "fail"}
WriteOutcomes == {"ok", "open_fail", "write_fail"}

----------------------------------------------------------------------------
\* The GUI setup without line 129: the window keeps Tk's default title.
Init_NoTitle ==
    /\ buffer = <<>>
    /\ modified = FALSE
    /\ current_file = None
    /\ title = <<"tk">>
    /\ running = TRUE
    /\ fs \in [Paths -> InitContents]
    /\ linesep \in LineSeps
    /\ lastOp = "init"
    /\ dialog = Cancelled
    /\ io = "none"
    /\ tries = 0
    /\ wasModified = FALSE
    /\ afterSaveAs = None
    /\ flushed = 0
    /\ ui = <<>>
    /\ answer = "none"
    /\ ret = "None"

Init ==
    /\ buffer = <<>>
    /\ modified = FALSE
    /\ current_file = None
    /\ title = SetTitle(None)
    /\ running = TRUE
    /\ fs \in [Paths -> InitContents]
    /\ linesep \in LineSeps
    /\ lastOp = "init"
    /\ dialog = Cancelled
    /\ io = "none"
    /\ tries = 0
    /\ wasModified = FALSE
    /\ afterSaveAs = None
    /\ flushed = 0
    /\ ui = <<>>
    /\ answer = "none"
    /\ ret = "None"

\* The user types a character c at offset i of the text widget: the widget
\* inserts it and sets its modified flag.
InsertChar(i, c) ==
    /\ running
    /\ Len(buffer) < MaxLen
    /\ buffer' = SubSeq(buffer, 1, i) \o <<c>> \o SubSeq(buffer, i + 1, Len(buffer))
    /\ modified' = TRUE
    /\ lastOp' = "edit" /\ wasModified' = modified
    /\ afterSaveAs' = SavedAs
    /\ dialog' = Cancelled /\ io' = "none" /\ tries' = 0 /\ flushed' = 0
    /\ ui' = <<>> /\ answer' = "none" /\ ret' = "None"
    /\ UNCHANGED <<current_file, title, running, fs, linesep>>

\* The user deletes the character at index i of the text widget.
DeleteChar(i) ==
    /\ running
    /\ i \in 1..Len(buffer)
    /\ buffer' = SubSeq(buffer, 1, i - 1) \o SubSeq(buffer, i + 1, Len(buffer))
    /\ modified' = TRUE
    /\ lastOp' = "edit" /\ wasModified' = modified
    /\ afterSaveAs' = SavedAs
    /\ dialog' = Cancelled /\ io' = "none" /\ tries' = 0 /\ flushed' = 0
    /\ ui' = <<>> /\ answer' = "none" /\ ret' = "None"
    /\ UNCHANGED <<current_file, title, running, fs, linesep>>

\* open_file() without line 61: the old text is not cleared before the insert.
OpenFile_NoDelete(path, how) ==
    /\ running
    /\ lastOp' = "open_file" /\ wasModified' = modified
    /\ afterSaveAs' = SavedAs
    /\ dialog' = path
    /\ flushed' = 0
    /\ answer' = "none"
    /\ ret' = "None"
    /\ UNCHANGED <<running, fs, linesep>>
    /\ IF ~Truthy(path)
       THEN /\ io' = "none" /\ tries' = 0
            /\ ui' = <<"askopenfilename">>
            /\ UNCHANGED session
       ELSE /\ io' = (IF ReadOk(path, how) THEN "ok" ELSE "fail")
            /\ tries' = 1
            /\ IF ReadOk(path, how)
               THEN /\ buffer' = ReadText(path) \o buffer
                    /\ current_file' = path
                    /\ title' = SetTitle(path)
                    /\ modified' = FALSE
                    /\ ui' = <<"askopenfilename">>
               ELSE /\ ui' = <<"askopenfilename", "showerror">>
                    /\ UNCHANGED session

\* open_file() with line 61 moved above the try: the text is cleared before
\* the file is read.
OpenFile_DeleteFirst(path, how) ==
    /\ running
    /\ lastOp' = "open_file" /\ wasModified' = modified
    /\ afterSaveAs' = SavedAs
    /\ dialog' = path
    /\ flushed' = 0
    /\ answer' = "none"
    /\ ret' = "None"
    /\ UNCHANGED <<running, fs, linesep>>
    /\ IF ~Truthy(path)
       THEN /\ io' = "none" /\ tries' = 0
            /\ ui' = <<"askopenfilename">>
            /\ UNCHANGED session
       ELSE /\ io' = (IF ReadOk(path, how) THEN "ok" ELSE "fail")
            /\ tries' = 1
            /\ IF ReadOk(path, how)
               THEN /\ buffer' = ReadText(path)
                    /\ current_file' = path
                    /\ title' = SetTitle(path)
                    /\ modified' = FALSE
                    /\ ui' = <<"askopenfilename">>
               ELSE /\ ui' = <<"askopenfilename", "showerror">>
                    /\ buffer' = <<>>
                    /\ UNCHANGED <<modified, current_file, title>>

\* open_file() with line 65 moved below the except: the flag is reset
\* whether or not the read succeeded.
OpenFile_ResetAlways(path, how) ==
    /\ running
    /\ lastOp' = "open_file" /\ wasModified' = modified
    /\ afterSaveAs' = SavedAs
    /\ dialog' = path
    /\ flushed' = 0
    /\ answer' = "none"
    /\ ret' = "None"
    /\ UNCHANGED <<running, fs, linesep>>
    /\ IF ~Truthy(path)
       THEN /\ io' = "none" /\ tries' = 0
            /\ ui' = <<"askopenfilename">>
            /\ UNCHANGED session
       ELSE /\ io' = (IF ReadOk(path, how) THEN "ok" ELSE "fail")
            /\ tries' = 1
            /\ IF ReadOk(path, how)
               THEN /\ buffer' = ReadText(path)
                    /\ current_file' = path
                    /\ title' = SetTitle(path)
                    /\ modified' = FALSE
                    /\ ui' = <<"askopenfilename">>
               ELSE /\ ui' = <<"askopenfilename", "showerror">>
                    /\ modified' = FALSE
                    /\ UNCHANGED <<buffer, current_file, title>>

\* open_file() with `except: pass` for lines 66-67: a failed read is swallowed.
OpenFile_Silent(path, how) ==
    /\ running
    /\ lastOp' = "open_file" /\ wasModified' = modified
    /\ afterSaveAs' = SavedAs
    /\ dialog' = path
    /\ flushed' = 0
    /\ answer' = "none"
    /\ ret' = "None"
    /\ UNCHANGED <<running, fs, linesep>>
    /\ IF ~Truthy(path)
       THEN /\ io' = "none" /\ tries' = 0
            /\ ui' = <<"askopenfilename">>
            /\ UNCHANGED session
       ELSE /\ io' = (IF ReadOk(path, how) THEN "ok" ELSE "fail")
            /\ tries' = 1
            /\ IF ReadOk(path, how)
               THEN /\ buffer' = ReadText(path)
                    /\ current_file' = path
                    /\ title' = SetTitle(path)
                    /\ modified' = FALSE
                    /\ ui' = <<"askopenfilename">>
               ELSE /\ ui' = <<"askopenfilename">>
                    /\ UNCHANGED session

\* open_file() with the guard of on_close in front of the dialog: a modified
\* session is asked first, and "no" abandons the Open.
OpenFile_Guarded(path, how) ==
    /\ running
    /\ lastOp' = "open_file" /\ wasModified' = modified
    /\ afterSaveAs' = SavedAs
    /\ flushed' = 0
    /\ ret' = "None"
    /\ UNCHANGED <<running, fs, linesep>>
    /\ IF modified
       THEN /\ answer' = "no"
            /\ dialog' = Cancelled
            /\ io' = "none" /\ tries' = 0
            /\ ui' = <<"askyesno">>
            /\ UNCHANGED session
       ELSE /\ answer' = "none"
            /\ dialog' = path
            /\ IF ~Truthy(path)
               THEN /\ io' = "none" /\ tries' = 0
                    /\ ui' = <<"askopenfilename">>
                    /\ UNCHANGED session
               ELSE /\ io' = (IF ReadOk(path, how) THEN "ok" ELSE "fail")
                    /\ tries' = 1
                    /\ IF ReadOk(path, how)
                       THEN /\ buffer' = ReadText(path)
                            /\ current_file' = path
                            /\ title' = SetTitle(path)
                            /\ modified' = FALSE
                            /\ ui' = <<"askopenfilename">>
                       ELSE /\ ui' = <<"askopenfilename", "showerror">>
                            /\ UNCHANGED session

\* open_file() whose except clause also forgets the file: a failed read
\* resets current_file to None and the title to "Untitled".
OpenFile_ClearOnFail(path, how) ==
    /\ running
    /\ lastOp' = "open_file" /\ wasModified' = modified
    /\ afterSaveAs' = SavedAs
    /\ dialog' = path
    /\ flushed' = 0
    /\ answer' = "none"
    /\ ret' = "None"
    /\ UNCHANGED <<running, fs, linesep>>
    /\ IF ~Truthy(path)
       THEN /\ io' = "none" /\ tries' = 0
            /\ ui' = <<"askopenfilename">>
            /\ UNCHANGED session
       ELSE /\ io' = (IF ReadOk(path, how) THEN "ok" ELSE "fail")
            /\ tries' = 1
            /\ IF ReadOk(path, how)
               THEN /\ buffer' = ReadText(path)
                    /\ current_file' = path
                    /\ title' = SetTitle(path)
                    /\ modified' = FALSE
                    /\ ui' = <<"askopenfilename">>
               ELSE /\ ui' = <<"askopenfilename", "showerror">>
                    /\ current_file' = None
                    /\ title' = SetTitle(None)
                    /\ UNCHANGED <<buffer, modified>>

\* open_file(), with path what askopenfilename returned and how the read went.
OpenFile(path, how) ==
    /\ running
    /\ lastOp' = "open_file" /\ wasModified' = modified
    /\ afterSaveAs' = SavedAs
    /\ dialog' = path
    /\ flushed' = 0
    /\ answer' = "none"
    /\ ret' = "None"
    /\ UNCHANGED <<running, fs, linesep>>
    /\ IF ~Truthy(path)
       THEN /\ io' = "none" /\ tries' = 0
            /\ ui' = <<"askopenfilename">>
            /\ UNCHANGED session
       ELSE /\ io' = (IF ReadOk(path, how) THEN "ok" ELSE "fail")
            /\ tries' = 1
            /\ IF ReadOk(path, how)
               THEN /\ buffer' = ReadText(path)
                    /\ current_file' = path
                    /\ title' = SetTitle(path)
                    /\ modified' = FALSE
                    /\ ui' = <<"askopenfilename">>
               ELSE /\ ui' = <<"askopenfilename", "showerror">>
                    /\ UNCHANGED session

\* save_file_as() without the `global current_file` of line 77: line 86
\* assigns a local, and the session's path stays what it was.
SaveFileAsBody_LocalPath(path, how, n, r) ==
    /\ dialog' = path
    /\ answer' = "none"
    /\ UNCHANGED <<buffer, running, linesep, current_file>>
    /\ IF ~Truthy(path)
       THEN /\ io' = "none" /\ tries' = 0 /\ flushed' = 0
            /\ ui' = <<"asksaveasfilename">>
            /\ r = "False"
            /\ UNCHANGED <<modified, title, fs>>
       ELSE /\ io' = how /\ tries' = 1 /\ flushed' = n
            /\ fs' = WriteFile(path, buffer, how, n)
            /\ IF how = "ok"
               THEN /\ title' = SetTitle(path)
                    /\ modified' = FALSE
                    /\ ui' = <<"asksaveasfilename">>
                    /\ r = "True"
               ELSE /\ ui' = <<"asksaveasfilename", "showerror">>
                    /\ r = "False"
                    /\ UNCHANGED <<modified, title>>

\* save_file_as() with lines 86-87 moved above the try: the path and the
\* title are set before the write is attempted.
SaveFileAsBody_PathFirst(path, how, n, r) ==
    /\ dialog' = path
    /\ answer' = "none"
    /\ UNCHANGED <<buffer, running, linesep>>
    /\ IF ~Truthy(path)
       THEN /\ io' = "none" /\ tries' = 0 /\ flushed' = 0
            /\ ui' = <<"asksaveasfilename">>
            /\ r = "False"
            /\ UNCHANGED <<modified, current_file, title, fs>>
       ELSE /\ io' = how /\ tries' = 1 /\ flushed' = n
            /\ fs' = WriteFile(path, buffer, how, n)
            /\ current_file' = path
            /\ title' = SetTitle(path)
            /\ IF how = "ok"
               THEN /\ modified' = FALSE
                    /\ ui' = <<"asksaveasfilename">>
                    /\ r = "True"
               ELSE /\ ui' = <<"asksaveasfilename", "showerror">>
                    /\ r = "False"
                    /\ UNCHANGED modified

\* save_file_as() without line 87: the title is not updated.
SaveFileAsBody_NoTitle(path, how, n, r) ==
    /\ dialog' = path
    /\ answer' = "none"
    /\ UNCHANGED <<buffer, running, linesep, title>>
    /\ IF ~Truthy(path)
       THEN /\ io' = "none" /\ tries' = 0 /\ flushed' = 0
            /\ ui' = <<"asksaveasfilename">>
            /\ r = "False"
            /\ UNCHANGED <<modified, current_file, fs>>
       ELSE /\ io' = how /\ tries' = 1 /\ flushed' = n
            /\ fs' = WriteFile(path, buffer, how, n)
            /\ IF how = "ok"
               THEN /\ current_file' = path
                    /\ modified' = FALSE
                    /\ ui' = <<"asksaveasfilename">>
                    /\ r = "True"
               ELSE /\ ui' = <<"asksaveasfilename", "showerror">>
                    /\ r = "False"
                    /\ UNCHANGED <<modified, current_file>>

\* The body of save_file_as(), with path what asksaveasfilename returned, how
\* the write went and n the characters a failed write flushed; r is the
\* value it returns.
SaveFileAsBody(path, how, n, r) ==
    /\ dialog' = path
    /\ answer' = "none"
    /\ UNCHANGED <<buffer, running, linesep>>
    /\ IF ~Truthy(path)
       THEN /\ io' = "none" /\ tries' = 0 /\ flushed' = 0
            /\ ui' = <<"asksaveasfilename">>
            /\ r = "False"
            /\ UNCHANGED <<modified, current_file, title, fs>>
       ELSE /\ io' = how /\ tries' = 1 /\ flushed' = n
            /\ fs' = WriteFile(path, buffer, how, n)
            /\ IF how = "ok"
               THEN /\ current_file' = path
                    /\ title' = SetTitle(path)
                    /\ modified' = FALSE
                    /\ ui' = <<"asksaveasfilename">>
                    /\ r = "True"
               ELSE /\ ui' = <<"asksaveasfilename", "showerror">>
                    /\ r = "False"
                    /\ UNCHANGED <<modified, current_file, title>>

\* save_file_as() run as a handler.
SaveFileAs(path, how, n) ==
    /\ running
    /\ lastOp' = "save_file_as" /\ wasModified' = modified
    /\ afterSaveAs' = SavedAs
    /\ \E r \in {"True", "False"} : SaveFileAsBody(path, how, n, r) /\ ret' = r

\* save_file() reading the widget to tk.END instead of "end-1c" on line 105:
\* the widget's own final newline is written too.
SaveFile_GetToEnd(path, how, n) ==
    /\ running
    /\ lastOp' = "save_file" /\ wasModified' = modified
    /\ afterSaveAs' = SavedAs
    /\ ret' = "None"
    /\ IF Truthy(current_file)
       THEN /\ dialog' = Cancelled /\ answer' = "none"
            /\ io' = how /\ tries' = 1 /\ flushed' = n
            /\ fs' = WriteFile(current_file, buffer \o <<LF>>, how, n)
            /\ IF how = "ok"
               THEN /\ modified' = FALSE
                    /\ ui' = <<>>
               ELSE /\ ui' = <<"showerror">>
                    /\ UNCHANGED modified
            /\ UNCHANGED <<buffer, current_file, title, running, linesep>>
       ELSE \E r \in {"True", "False"} : SaveFileAsBody(path, how, n, r)

\* save_file() with line 106 moved above the try: the flag is reset before
\* the write is attempted.
SaveFile_ResetFirst(path, how, n) ==
    /\ running
    /\ lastOp' = "save_file" /\ wasModified' = modified
    /\ afterSaveAs' = SavedAs
    /\ ret' = "None"
    /\ IF Truthy(current_file)
       THEN /\ dialog' = Cancelled /\ answer' = "none"
            /\ io' = how /\ tries' = 1 /\ flushed' = n
            /\ fs' = WriteFile(current_file, buffer, how, n)
            /\ modified' = FALSE
            /\ ui' = (IF how = "ok" THEN <<>> ELSE <<"showerror">>)
            /\ UNCHANGED <<buffer, current_file, title, running, linesep>>
       ELSE \E r \in {"True", "False"} : SaveFileAsBody(path, how, n, r)

\* save_file() without lines 109-110: nothing happens when no path is set.
SaveFile_NoDelegate(path, how, n) ==
    /\ running
    /\ lastOp' = "save_file" /\ wasModified' = modified
    /\ afterSaveAs' = SavedAs
    /\ ret' = "None"
    /\ IF Truthy(current_file)
       THEN /\ dialog' = Cancelled /\ answer' = "none"
            /\ io' = how /\ tries' = 1 /\ flushed' = n
            /\ fs' = WriteFile(current_file, buffer, how, n)
            /\ IF how = "ok"
               THEN /\ modified' = FALSE
                    /\ ui' = <<>>
               ELSE /\ ui' = <<"showerror">>
                    /\ UNCHANGED modified
            /\ UNCHANGED <<buffer, current_file, title, running, linesep>>
       ELSE /\ dialog' = Cancelled /\ answer' = "none"
            /\ io' = "none" /\ tries' = 0 /\ flushed' = 0
            /\ ui' = <<>>
            /\ UNCHANGED <<session, fs, running, linesep>>

\* save_file() that first gives the text a final newline: it inserts "\n"
\* at the end of the widget before line 104, which also sets the flag the
\* successful write then resets.
SaveFile_AppendNewline(path, how, n) ==
    /\ running
    /\ lastOp' = "save_file" /\ wasModified' = modified
    /\ afterSaveAs' = SavedAs
    /\ ret' = "None"
    /\ IF Truthy(current_file)
       THEN /\ dialog' = Cancelled /\ answer' = "none"
            /\ io' = how /\ tries' = 1 /\ flushed' = n
            /\ fs' = WriteFile(current_file, buffer \o <<LF>>, how, n)
            /\ IF how = "ok"
               THEN /\ modified' = FALSE
                    /\ ui' = <<>>
               ELSE /\ ui' = <<"showerror">>
                    /\ modified' = TRUE
            /\ buffer' = buffer \o <<LF>>
            /\ UNCHANGED <<current_file, title, running, linesep>>
       ELSE \E r \in {"True", "False"} : SaveFileAsBody(path, how, n, r)

\* save_file(); path is what asksaveasfilename returns when it is shown.
SaveFile(path, how, n) ==
    /\ running
    /\ lastOp' = "save_file" /\ wasModified' = modified
    /\ afterSaveAs' = SavedAs
    /\ ret' = "None"
    /\ IF Truthy(current_file)
       THEN /\ dialog' = Cancelled /\ answer' = "none"
            /\ io' = how /\ tries' = 1 /\ flushed' = n
            /\ fs' = WriteFile(current_file, buffer, how, n)
            /\ IF how = "ok"
               THEN /\ modified' = FALSE
                    /\ ui' = <<>>
               ELSE /\ ui' = <<"showerror">>
                    /\ UNCHANGED modified
            /\ UNCHANGED <<buffer, current_file, title, running, linesep>>
       ELSE \E r \in {"True", "False"} : SaveFileAsBody(path, how, n, r)

\* on_close() with the test of line 120 inverted: "yes" keeps the window.
OnClose_Inverted(yes) ==
    /\ running
    /\ lastOp' = "on_close" /\ wasModified' = modified
    /\ afterSaveAs' = SavedAs
    /\ dialog' = Cancelled /\ io' = "none" /\ tries' = 0 /\ flushed' = 0
    /\ ret' = "None"
    /\ IF modified
       THEN /\ ui' = <<"askyesno">>
            /\ answer' = (IF yes THEN "yes" ELSE "no")
            /\ running' = yes
       ELSE /\ ui' = <<>>
            /\ answer' = "none"
            /\ running' = FALSE
    /\ UNCHANGED <<session, fs, linesep>>

\* on_close(), with yes the answer askyesno gives when it is shown.
OnClose(yes) ==
    /\ running
    /\ lastOp' = "on_close" /\ wasModified' = modified
    /\ afterSaveAs' = SavedAs
    /\ dialog' = Cancelled /\ io' = "none" /\ tries' = 0 /\ flushed' = 0
    /\ ret' = "None"
    /\ IF modified
       THEN /\ ui' = <<"askyesno">>
            /\ answer' = (IF yes THEN "yes" ELSE "no")
            /\ running' = ~yes
       ELSE /\ ui' = <<>>
            /\ answer' = "none"
            /\ running' = FALSE
    /\ UNCHANGED <<session, fs, linesep>>

Next ==
    \/ \E i \in 0..Len(buffer), c \in Alphabet : InsertChar(i, c)
    \/ \E i \in 1..Len(buffer) : DeleteChar(i)
    \/ \E path \in Paths \cup {Cancelled}, how \in ReadOutcomes :
          OpenFile(path, how)
    \/ \E path \in Paths \cup {Cancelled}, how \in WriteOutcomes :
          \E n \in Partial(buffer, how) : SaveFileAs(path, how, n)
    \/ \E path \in Paths \cup {Cancelled}, how \in WriteOutcomes :
          \E n \in Partial(buffer, how) : SaveFile(path, how, n)
    \/ \E yes \in BOOLEAN : OnClose(yes)

Spec == Init /\ [][Next]_vars

----------------------------------------------------------------------------
\* Observations the properties below are stated with.

\* The last handler showed the toolkit dialog d.
Shown(d) == \E k \in 1..Len(ui) : ui[k] = d

\* The last handler was a load or a save that went through.
Succeeded ==
    CASE lastOp = "open_file"    -> Truthy(dialog) /\ io = "ok"
      [] lastOp = "save_file_as" -> Truthy(dialog) /\ io = "ok"
      [] lastOp = "save_file"    -> io = "ok"
      [] OTHER                   -> FALSE

OpenSucceeded == lastOp = "open_file" /\ Truthy(dialog) /\ io = "ok"

----------------------------------------------------------------------------
\* C1 as stated: after a successful Open the buffer is exactly the contents
\* of the selected file, path is the selected path and modified is false.
C1_Exact ==
    OpenSucceeded =>
        /\ buffer = fs[dialog]
        /\ current_file = dialog
        /\ modified = FALSE

\* C1, amended: after a successful Open the buffer is the contents of the
\* selected file with every "\r\n" pair and every lone "\r" read as "\n",
\* path is the selected path and modified is false.
C1_OpenLoads ==
    OpenSucceeded =>
        /\ buffer = UniversalNewlines(fs[dialog])
        /\ current_file = dialog
        /\ modified = FALSE

\* A file with a "\r\n" line ending has been opened.
C1_Witness ==
    /\ OpenSucceeded
    /\ \E k \in 1..Len(fs[dialog]) : fs[dialog][k] = CR
    /\ buffer # fs[dialog]

\* C2: an Open that is cancelled or whose read fails leaves buffer, path,
\* modified flag and title as they were; it shows an error exactly when the
\* read failed (a path was selected), and none on cancellation.
C2_OpenFailureKeepsSession ==
    [][ (lastOp' = "open_file" /\ ~(Truthy(dialog') /\ io' = "ok")) =>
            /\ UNCHANGED session
            /\ Shown("showerror")' <=> Truthy(dialog') ]_vars

\* A read failed on a session that had a path and unsaved text.
C2_Witness ==
    /\ lastOp = "open_file" /\ io = "fail" /\ Shown("showerror")
    /\ modified /\ buffer # <<>> /\ Truthy(current_file)

\* C3 as stated: after a successful Save on a session with a path, the file
\* at path holds exactly the buffer, modified is false and no destination
\* was asked for.
C3_Verbatim ==
    [][ (lastOp' = "save_file" /\ Truthy(current_file) /\ io' = "ok") =>
            /\ fs'[current_file] = buffer
            /\ modified' = FALSE
            /\ ~Shown("asksaveasfilename")' ]_vars

\* C3, amended: after a successful Save on a session with a path, the file
\* at path holds the buffer with every "\n" written as the platform's line
\* separator (so exactly the buffer where the separator is "\n"), modified
\* is false and no destination was asked for.
C3_SaveWrites ==
    [][ (lastOp' = "save_file" /\ Truthy(current_file) /\ io' = "ok") =>
            /\ fs'[current_file] = TranslateNewlines(buffer, linesep)
            /\ linesep = <<LF>> => fs'[current_file] = buffer
            /\ modified' = FALSE
            /\ ~Shown("asksaveasfilename")'
            /\ UNCHANGED buffer ]_vars

\* A buffer holding a newline has been saved to the session's path.
C3_Witness ==
    /\ lastOp = "save_file" /\ io = "ok" /\ ui = <<>>
    /\ \E k \in 1..Len(buffer) : buffer[k] = LF
    /\ fs[current_file] = TranslateNewlines(buffer, linesep)

\* C4: a Save on a session with a path whose write fails shows an error and
\* leaves the modified flag and the path as they were.
C4_SaveFailureKeepsFlag ==
    [][ (lastOp' = "save_file" /\ Truthy(current_file) /\ io' # "ok") =>
            /\ Shown("showerror")'
            /\ UNCHANGED <<modified, current_file>> ]_vars

\* A write failed on a modified session with a path.
C4_Witness ==
    /\ lastOp = "save_file" /\ io = "write_fail" /\ ui = <<"showerror">>
    /\ modified /\ Truthy(current_file)

\* C5: a Save on a session with no path is a run of Save As: with the same
\* dialog result, write outcome and flushed characters, it leaves the buffer,
\* path, modified flag, title, files and notifications Save As leaves.
C5_SaveDelegates ==
    [][ (lastOp' = "save_file" /\ ~Truthy(current_file)) =>
            /\ Shown("asksaveasfilename")'
            /\ \E r \in {"True", "False"} :
                  SaveFileAsBody(dialog', io', flushed', r) ]_vars

\* A Save on a session with no path has written the chosen file.
C5_Witness ==
    /\ lastOp = "save_file" /\ Shown("asksaveasfilename")
    /\ Truthy(dialog) /\ io = "ok" /\ current_file = dialog

\* C6: a Save As whose write succeeds leaves the buffer, as text mode writes
\* it, in the chosen file, sets path to the chosen path, sets modified to
\* false and returns True, whatever the path was before.
C6_SaveAsSucceeds ==
    [][ (lastOp' = "save_file_as" /\ Truthy(dialog') /\ io' = "ok") =>
            /\ fs'[dialog'] = TranslateNewlines(buffer, linesep)
            /\ current_file' = dialog'
            /\ modified' = FALSE
            /\ ret' = "True" ]_vars

\* A Save As has moved a modified session from one path to another.
C6_Witness ==
    /\ lastOp = "save_file_as" /\ io = "ok" /\ ret = "True"
    /\ current_file = PathU
    /\ fs[PathU] = TranslateNewlines(buffer, linesep) /\ buffer # <<>>

\* C7: a Save As that is cancelled or whose write fails returns False and
\* leaves path, modified flag and title as they were; it shows an error
\* exactly when a write was attempted, and none on cancellation.
C7_SaveAsFailureKeepsSession ==
    [][ (lastOp' = "save_file_as" /\ ~(Truthy(dialog') /\ io' = "ok")) =>
            /\ ret' = "False"
            /\ UNCHANGED <<current_file, modified, title>>
            /\ Shown("showerror")' <=> Truthy(dialog') ]_vars

\* A Save As to another path failed on a modified session with a path.
C7_Witness ==
    /\ lastOp = "save_file_as" /\ io = "write_fail" /\ Shown("showerror")
    /\ modified /\ Truthy(current_file) /\ dialog # current_file

\* C8: Close prompts exactly when modified is true; with modified false it
\* terminates; with modified true it terminates exactly on the answer yes,
\* and on the answer no the session runs on with buffer, path, modified flag
\* and title as they were.
C8_CloseGuard ==
    [][ lastOp' = "on_close" =>
            /\ Shown("askyesno")' <=> modified
            /\ ~modified => ~running'
            /\ modified => (running' <=> answer' = "no")
            /\ modified => (~running' <=> answer' = "yes")
            /\ UNCHANGED session ]_vars

\* A close of a modified session was declined.
C8_Witness ==
    /\ lastOp = "on_close" /\ answer = "no" /\ running
    /\ modified /\ buffer # <<>>

\* C9: in every state the title is the "Untitled" placeholder when path is
\* unset and is the prefix followed by the final component of path when
\* path is set.
C9_TitleFollowsPath ==
    /\ current_file = None => title = TitlePrefix \o Untitled
    /\ current_file # None =>
          /\ current_file \in Paths
          /\ title = TitlePrefix \o Basename(current_file)
          /\ \E k \in 1..Len(current_file) :
                /\ current_file[k] = "/"
                /\ \A j \in (k + 1)..Len(current_file) : current_file[j] # "/"
                /\ title = TitlePrefix \o SubSeq(current_file, k + 1, Len(current_file))

\* A Save As to another path failed after the path had been set.
C9_Witness ==
    /\ lastOp = "save_file_as" /\ Shown("showerror")
    /\ current_file = PathA /\ dialog = PathU
    /\ title = TitlePrefix \o <<"a", ".", "t", "x", "t">>

Errors == Cardinality({k \in 1..Len(ui) : ui[k] = "showerror"})

FileOps == {"open_file", "save_file", "save_file_as"}

----------------------------------------------------------------------------
\* C11: before any operation has run the buffer is empty, no path is set,
\* modified is false, the title is the "Untitled" placeholder and the window
\* is up.
C11_InitialSession ==
    lastOp = "init" =>
        /\ buffer = <<>>
        /\ current_file = None
        /\ modified = FALSE
        /\ title = TitlePrefix \o Untitled
        /\ running

\* The editor has started beside an existing file and nothing has run yet.
C11_Witness ==
    /\ lastOp = "init" /\ ui = <<>>
    /\ fs[PathA] # NoFile /\ buffer = <<>> /\ current_file = None

\* C12: every Open, Save and Save As calls open() at most once and changes
\* at most one file; it shows exactly one error when that attempt failed and
\* none when it succeeded or the dialog was cancelled.
C12_ReportOnceNoRetry ==
    [][ lastOp' \in FileOps =>
            /\ tries' \in {0, 1}
            /\ tries' = 0 <=> (io' = "none")
            /\ Cardinality({p \in Paths : fs'[p] # fs[p]}) <= tries'
            /\ Errors' = (IF tries' = 1 /\ io' # "ok" THEN 1 ELSE 0)
            /\ (Errors' = 1) => ui'[Len(ui')] = "showerror" ]_vars

\* A Save with no path delegated to Save As, whose write failed.
C12_Witness ==
    /\ lastOp = "save_file" /\ Shown("asksaveasfilename")
    /\ io = "write_fail" /\ tries = 1 /\ Errors = 1

\* C13: in every state with modified false, the buffer is empty if no path
\* is set, and the file at path holds the buffer if a path is set.  "Holds
\* the buffer" is taken up to the newline translation of text mode (the file
\* is the buffer as written, or reads back as the buffer), which the exact
\* equality the claim words implies.
C13_UnpromptedCloseLosesNothing ==
    ~modified =>
        /\ current_file = None => buffer = <<>>
        /\ Truthy(current_file) =>
              \/ fs[current_file] = buffer
              \/ fs[current_file] = TranslateNewlines(buffer, linesep)
              \/ /\ fs[current_file] # NoFile
                 /\ UniversalNewlines(fs[current_file]) = buffer

\* C14: only Close asks for confirmation; an Open of a readable file on a
\* modified session shows nothing but the file dialog, replaces the buffer
\* with the file's text and clears modified, so the unsaved text is gone.
C14_OnlyCloseConfirms ==
    [][ /\ Shown("askyesno")' => lastOp' = "on_close"
        /\ (lastOp' = "open_file" /\ modified /\ Truthy(dialog') /\ io' = "ok") =>
              /\ ui' = <<"askopenfilename">>
              /\ answer' = "none"
              /\ buffer' = UniversalNewlines(fs[dialog'])
              /\ modified' = FALSE ]_vars

\* An Open has replaced unsaved text by the different text of a file.
C14_Witness ==
    /\ lastOp = "open_file" /\ io = "ok" /\ wasModified
    /\ ~modified /\ buffer = <<"a", LF>> /\ ui = <<"askopenfilename">>

\* The last handler wrote or read the file the dialog named, successfully:
\* a successful Open, or a successful run of Save As (by itself or on behalf
\* of a Save with no path).
SetsPath == lastOp \in FileOps /\ Truthy(dialog) /\ io = "ok"

\* C15 as stated: a path that is set is never unset, from then on the title
\* is never the "Untitled" placeholder again, and the path changes only in a
\* successful Open or Save As.
C15_NeverUntitledAgain ==
    [][ /\ Truthy(current_file) => Truthy(current_file')
        /\ Truthy(current_file) => title' # TitlePrefix \o Untitled
        /\ current_file' # current_file => SetsPath' ]_vars

\* C15, amended: a path that is set is never unset, the path changes only in
\* a successful Open or Save As and then to the path the dialog returned,
\* and from then on the title is the "Untitled" placeholder exactly when the
\* final component of the path is itself "Untitled".
C15_PathMonotone ==
    [][ /\ Truthy(current_file) => Truthy(current_file')
        /\ current_file' # current_file =>
              SetsPath' /\ current_file' = dialog'
        /\ Truthy(current_file) =>
              (title' = TitlePrefix \o Untitled
                  <=> Basename(current_file') = Untitled) ]_vars

\* A failed Open on a session whose path is a file named "Untitled".
C15_Witness ==
    /\ lastOp = "open_file" /\ io = "fail"
    /\ current_file = PathU /\ title = TitlePrefix \o Untitled

\* C16: Save, Save As and Close leave the buffer as it was, whatever their
\* outcome; a Save on a session whose path is set also leaves the path and
\* the title as they were.
C16_SavesKeepBuffer ==
    [][ /\ lastOp' \in {"save_file", "save_file_as", "on_close"} =>
              buffer' = buffer
        /\ (lastOp' = "save_file" /\ Truthy(current_file)) =>
              UNCHANGED <<current_file, title>> ]_vars

\* A Save to the session's path has written unsaved, non-empty text.
C16_Witness ==
    /\ lastOp = "save_file" /\ io = "ok" /\ ui = <<>>
    /\ wasModified /\ buffer # <<>> /\ Truthy(current_file)

\* C17 as stated: a successful Open of p right after a successful Save As
\* to p leaves buffer, path, modified flag and title as the Save As left
\* them, for every text in the buffer.
C17_RoundTrip ==
    [][ (/\ lastOp = "save_file_as" /\ Truthy(dialog) /\ io = "ok"
         /\ lastOp' = "open_file" /\ dialog' = dialog /\ io' = "ok") =>
            UNCHANGED session ]_vars

\* C17, amended: the same, for every text in the buffer that holds no
\* carriage return.
C17_RoundTripWithoutCR ==
    [][ (/\ lastOp = "save_file_as" /\ Truthy(dialog) /\ io = "ok"
         /\ lastOp' = "open_file" /\ dialog' = dialog /\ io' = "ok"
         /\ \A k \in 1..Len(buffer) : buffer[k] # CR) =>
            /\ UNCHANGED session
            /\ afterSaveAs' = dialog' ]_vars

\* A text with a newline was saved as p where the line separator is "\r\n",
\* and p was opened right after.
C17_Witness ==
    /\ lastOp = "open_file" /\ io = "ok" /\ afterSaveAs = dialog
    /\ linesep = <<CR, LF>>
    /\ buffer = <<LF>> /\ fs[dialog] = <<CR, LF>>
    /\ current_file = dialog /\ ~modified

=============================================================================
